---- MODULE Spec2Model ----
(***************************************************************************)
(* Model of src/main.js (Vent Fan Beat Simulator Vol.2): the rotary        *)
(* collision detector, the hit gate / normaliser and the voice arbiter.    *)
(*                                                                         *)
(* Units.  Angles are integers, one unit = 2*pi/5040 rad, so TWO_PI = 5040 *)
(* and HIT_ANGLE_TOL = 0.25 rad = 200 units (0.25 * 5040 / 2pi = 200.5).   *)
(* Simulation time is an integer number of 1/240 s, so that one sub-step   *)
(* of a 1/60 s frame is 1.  state.rpm is in rev/min: omega = rpm/60*2pi    *)
(* rad/s = rpm * 7/20 angle units per time unit.  Strengths are integers   *)
(* in units of 1e-5 (One = 1.0); a normalised strength is kept as the      *)
(* exact fraction <<numerator, denominator>>.  Percent sliders             *)
(* (timingJitter, impactDynamics, softHitLowCut) hold 0..100.              *)
(* Arrays are indexed from 1: blade b of the model is blade b-1 of the     *)
(* source, obstacle o is obstacle o-1.                                     *)
(***************************************************************************)
EXTENDS Integers, Sequences, FiniteSets, TLC

TWO_PI == 5040
PI == 2520
HIT_ANGLE_TOL == 200
One == 100000
minStrength == 1000
DenomEps == 1
substeps == 4
noiseRatio == 15
NegInf == -1
NULL == 0

\* Bounds of the model.
MaxTime == 160
MaxTimeShort == 40
MaxTimeJitter == 76
MaxTimeConfig == 8
MaxVoices == 2
MaxStarts == 1
MaxHitCount == 2
MaxBlades == 3
MaxObstacles == 2
MantissaBits == 4

VARIABLES
    state,                \* the `state` object (sliders, running, voiceMode)
    obstacles,            \* sequence of [angle, sampleIndex, volume, enabled]
    wasInHitZone,         \* [b][o] -> BOOLEAN
    lastHitRev,           \* [b][o] -> revIndex of the last emitted collision, NegInf if none
    wobblePhasePerBlade,  \* [b] -> phase
    hitCount,             \* accepted hits since the last hit-rate log
    simTime,
    lastTimestamp,        \* "null" or "set"
    audioContext,         \* "null" or "ctx"
    masterGain,           \* "null" or "gain"
    sampleBuffers,        \* number of decoded sample buffers
    audioReadyPromise,    \* "null", "pending" or "resolved"
    startCalls,           \* startSimulation calls suspended at an await: [audio, resume]
    rafPending,           \* requestAnimationFrame(loop) callbacks not yet run
    activeVoices,         \* [sample, noise] -> [obstacle -> source id or NULL]
    voices,               \* buffer sources started and not yet ended
    preset,               \* presets[0]: NULL-record or a snapshot
    dragging,             \* obstacle whose angle thumb holds the pointer, or NULL
    trace,                \* history: the pair visits of the latest detection pass
    pairLog,              \* history: per pair, the invocations of registerCollision
    acceptedBy,           \* history: per threshold, hits the gate accepts
    passShape,            \* history: array shapes when the latest detection pass began
    tick                  \* history: the latest call of stepSimulation and its effect

vars == <<state, obstacles, wasInHitZone, lastHitRev, wobblePhasePerBlade, hitCount,
          simTime, lastTimestamp, audioContext, masterGain, sampleBuffers,
          audioReadyPromise, startCalls, rafPending, activeVoices, voices, preset,
          dragging, trace, pairLog, acceptedBy, passShape, tick>>

audioVars == <<audioContext, masterGain, sampleBuffers, audioReadyPromise>>
hitVars == <<wasInHitZone, lastHitRev, wobblePhasePerBlade>>
histVars == <<trace, pairLog, acceptedBy, passShape, tick>>

-----------------------------------------------------------------------------
\* Pure helpers

Max(a, b) == IF a >= b THEN a ELSE b
Min(a, b) == IF a <= b THEN a ELSE b
Abs(x) == IF x < 0 THEN -x ELSE x

\* JavaScript number division of integers, rounded toward zero.
TruncDiv(a, b) == IF a >= 0 THEN a \div b ELSE -((-a) \div b)

clamp(value, min, max) == Min(Max(value, min), max)

RECURSIVE WhileAbove(_)
WhileAbove(d) == IF d > PI THEN WhileAbove(d - TWO_PI) ELSE d

RECURSIVE WhileBelow(_)
WhileBelow(d) == IF d < -PI THEN WhileBelow(d + TWO_PI) ELSE d

smallestAngleDiff(a, b) == WhileBelow(WhileAbove(a - b))

\* Math.sin of an angle, times 1000 (Bhaskara's rational form on whole degrees).
SinMilli(x) ==
    LET d == (x % TWO_PI) \div 14
        h == IF d <= 180 THEN d ELSE d - 180
        p == h * (180 - h)
        v == (4000 * p) \div (40500 - p)
    IN  IF d <= 180 THEN v ELSE -v

\* The element of a one-element set (evaluates the element once).
Value(S) == CHOOSE x \in S : TRUE

\* (TWO_PI * b) / bladeCount for blade index b (0-based)
BladeOffset(b, bladeCount) == (TWO_PI * b) \div bladeCount

Omega == (state.rpm * 7) \div 20

Pairs == (1..MaxBlades) \X (1..MaxObstacles)

NoSlots == [o \in 1..MaxObstacles |-> NULL]

-----------------------------------------------------------------------------
\* Hit-zone state and wobble phases

\* Faulty variant: rows of a fixed length instead of obstacles.length.
resetHitStatesFixedRows(st, obs) ==
    [wasInHitZone |-> [b \in 1..st.bladeCount |-> [o \in 1..2 |-> FALSE]],
     lastHitRev   |-> [b \in 1..st.bladeCount |-> [o \in 1..2 |-> NegInf]]]

resetHitStates(st, obs) ==
    [wasInHitZone |-> [b \in 1..st.bladeCount |-> [o \in 1..Len(obs) |-> FALSE]],
     lastHitRev   |-> [b \in 1..st.bladeCount |-> [o \in 1..Len(obs) |-> NegInf]]]

\* Faulty variant: the rows are pushed without emptying the arrays first.
resetHitStatesOnNoClear(wz, lr, st, obs) ==
    [wasInHitZone |-> wz \o resetHitStates(st, obs).wasInHitZone,
     lastHitRev   |-> lr \o resetHitStates(st, obs).lastHitRev]

\* resetHitStates() as a transformer of the arrays wz and lr it is called on:
\* `wasInHitZone = []; lastHitRev = [];`, then one fresh row per blade.
resetHitStatesOn(wz, lr, st, obs) ==
    [wasInHitZone |-> << >> \o resetHitStates(st, obs).wasInHitZone,
     lastHitRev   |-> << >> \o resetHitStates(st, obs).lastHitRev]

ensureHitStateSize(st, obs, wz, lr) ==
    IF Len(wz) # st.bladeCount \/ Len(lr) # st.bladeCount
    THEN resetHitStates(st, obs)
    ELSE IF \E b \in 1..st.bladeCount : Len(wz[b]) # Len(obs) \/ Len(lr[b]) # Len(obs)
         THEN resetHitStates(st, obs)
         ELSE [wasInHitZone |-> wz, lastHitRev |-> lr]

\* Faulty variant: every blade gets phase 0.
resetWobblePhasesZero(st) ==
    IF st.bladeCount <= 0
    THEN << >>
    ELSE [b \in 1..st.bladeCount |-> 0]

resetWobblePhases(st) ==
    IF st.bladeCount <= 0
    THEN << >>
    ELSE [b \in 1..st.bladeCount |-> BladeOffset(b - 1, st.bladeCount)]

\* resetWobblePhases() as a transformer of the array it is called on:
\* `wobblePhasePerBlade = [];`, then one phase per blade.
resetWobblePhasesOn(phases, st) == << >> \o resetWobblePhases(st)

ensureWobblePhaseSize(st, phases) ==
    IF Len(phases) # st.bladeCount THEN resetWobblePhases(st) ELSE phases

-----------------------------------------------------------------------------
\* Impact / tone mappers.  A strength is a fraction <<n, d>> with d > 0.

clampFrac(f) ==
    IF f[1] < 0 THEN <<0, 1>> ELSE IF f[1] > f[2] THEN <<1, 1>> ELSE f

\* The mappers compute in floating point.  A Number is modelled as a binary
\* float of MantissaBits significant bits, written as its integer multiple of
\* 1/FloatOne; below MantissaBits bits the spacing is 1/FloatOne (subnormals).
\* Every operation rounds its exact result to the nearest float, ties to even.
FloatGrid == 2 ^ (MantissaBits + 2)

FloatOne == FloatGrid * FloatGrid

RECURSIVE BitLen(_)
BitLen(n) == IF n = 0 THEN 0 ELSE 1 + BitLen(n \div 2)

\* num/den (in units of 1/FloatOne, num >= 0, den > 0) rounded to a float
RoundRat(num, den) ==
    LET k    == Max(BitLen(num \div den) - MantissaBits, 0)
        step == den * (2 ^ k)
        q    == num \div step
        rem  == num % step
        up   == 2 * rem > step \/ (2 * rem = step /\ q % 2 = 1)
    IN  (IF up THEN q + 1 ELSE q) * (2 ^ k)

fsub(a, b) == RoundRat(a - b, 1)

fmul(a, b) == RoundRat(a * b, FloatOne)

\* the slider transform clamp(parseFloat(v) / 100, 0, 1) of a percent value
SliderFloat(percent) == clamp(RoundRat(Max(percent, 0) * FloatOne, 100), 0, FloatOne)

\* Faulty variant: dyn * r where 1 - dyn * (1 - r) is meant.
getImpactStrengthNoOffset(strength) ==
    LET dyn == clamp(SliderFloat(state.impactDynamics), 0, FloatOne)
        r   == clamp(strength, 0, FloatOne)
    IN  fmul(dyn, r)

\* 1 - dyn * (1 - r)
getImpactStrength(strength) ==
    LET dyn == clamp(SliderFloat(state.impactDynamics), 0, FloatOne)
        r   == clamp(strength, 0, FloatOne)
    IN  fsub(FloatOne, fmul(dyn, fsub(FloatOne, r)))

\* Faulty variant: bias * strength01 where bias * softness is meant.
getSoftHitLowCutFactorNoSoftness(strength) ==
    LET bias       == clamp(SliderFloat(state.softHitLowCut), 0, FloatOne)
        strength01 == clamp(strength, 0, FloatOne)
    IN  fmul(bias, strength01)

\* bias * (1 - strength01)
getSoftHitLowCutFactor(strength) ==
    LET bias       == clamp(SliderFloat(state.softHitLowCut), 0, FloatOne)
        strength01 == clamp(strength, 0, FloatOne)
        softness   == fsub(FloatOne, strength01)
    IN  fmul(bias, softness)

-----------------------------------------------------------------------------
\* Voice arbiter.  The machine record m carries what stepSimulation mutates.

FreshSource(m) ==
    CHOOSE i \in 1..(Cardinality(m.voices) + 1) : \A v \in m.voices : v.id # i

\* Returns [m, stopped]: the slot's voice, if any, is faded and stopped.
stopActiveVoice(m, kind, index) ==
    LET voice == m.activeVoices[kind][index]
    IN  IF voice = NULL
        THEN [m |-> m, stopped |-> NULL]
        ELSE [m |-> [m EXCEPT
                       !.voices = {IF v.id = voice THEN [v EXCEPT !.st = "releasing"] ELSE v
                                   : v \in m.voices},
                       !.activeVoices[kind][index] = NULL],
              stopped |-> voice]

\* Faulty variant: the slot's voice is stopped in poly mode too.
StartVoiceAlwaysSteal(m, kind, obstacleIndex) ==
    LET mono == state.voiceMode = "mono" /\ obstacleIndex >= 1
    IN  Value({[m |-> [s.m EXCEPT
                        !.voices = @ \cup
                           {[id |-> src, o |-> obstacleIndex, kind |-> kind,
                             st |-> "sounding", registered |-> mono]},
                        !.activeVoices[kind][obstacleIndex] = IF mono THEN src ELSE @],
                played |-> TRUE, started |-> src, stopped |-> s.stopped, kind |-> kind]
               : s \in {stopActiveVoice(m, kind, obstacleIndex)},
                 src \in {FreshSource(m)}})

\* The common tail of playSampleHit and playNoiseHit for one kind.
StartVoice(m, kind, obstacleIndex) ==
    LET mono == state.voiceMode = "mono" /\ obstacleIndex >= 1
    IN  Value({[m |-> [s.m EXCEPT
                        !.voices = @ \cup
                           {[id |-> src, o |-> obstacleIndex, kind |-> kind,
                             st |-> "sounding", registered |-> mono]},
                        !.activeVoices[kind][obstacleIndex] = IF mono THEN src ELSE @],
                played |-> TRUE, started |-> src, stopped |-> s.stopped, kind |-> kind]
               : s \in {IF mono THEN stopActiveVoice(m, kind, obstacleIndex)
                               ELSE [m |-> m, stopped |-> NULL]},
                 src \in {FreshSource(m)}})

NotPlayed(m) ==
    [m |-> m, played |-> FALSE, started |-> NULL, stopped |-> NULL, kind |-> "none"]

playSampleHit(m, obstacleIndex) ==
    IF audioContext = "null" \/ masterGain = "null"
    THEN NotPlayed(m)
    ELSE StartVoice(m, "sample", obstacleIndex)

\* noiseBuffer is created together with audioContext
playNoiseHit(m, obstacleIndex) ==
    IF audioContext = "null" \/ masterGain = "null"
    THEN NotPlayed(m)
    ELSE StartVoice(m, "noise", obstacleIndex)

\* TRUE iff a sample buffer exists for the obstacle
getSampleBufferForObstacle(obstacle) ==
    IF sampleBuffers = 0 THEN FALSE
    ELSE IF obstacle.sampleIndex < 0 \/ obstacle.sampleIndex >= sampleBuffers THEN FALSE
    ELSE TRUE

playClick(m, obstacleIndex) ==
    IF audioContext = "null" \/ masterGain = "null"
    THEN NotPlayed(m)
    ELSE IF getSampleBufferForObstacle(obstacles[obstacleIndex])
         THEN playSampleHit(m, obstacleIndex)
         ELSE playNoiseHit(m, obstacleIndex)

-----------------------------------------------------------------------------
\* Hit gate and normaliser

Threshold(st) == clamp(st.hitThreshold, 0, One)

\* Faulty variants of the gate: the threshold comparison inverted, and no floor.
GatePassesInverted(rawStrength, t) ==
    ~(rawStrength < minStrength) /\ ~(rawStrength > t)

GatePassesNoFloor(rawStrength, t) ==
    ~(rawStrength < t)

\* The two `return`s of the gate: TRUE iff the hit survives the floor and threshold t.
GatePasses(rawStrength, t) ==
    ~(rawStrength < minStrength) /\ ~(rawStrength < t)

\* Faulty variants of the normaliser: no rescaling, and 0 on the degenerate branch.
NormStrengthRaw(rawStrength, threshold) ==
    <<rawStrength, One>>

NormStrengthZero(rawStrength, threshold) ==
    LET denom == One - threshold
    IN  IF denom <= DenomEps THEN <<0, 1>> ELSE <<rawStrength - threshold, denom>>

\* normStrength before the final clamp
NormStrength(rawStrength, threshold) ==
    LET denom == One - threshold
    IN  IF denom <= DenomEps THEN <<1, 1>> ELSE <<rawStrength - threshold, denom>>

\* Thresholds in [0, 1] for which the accepted hits are counted side by side.
ThresholdSet == {0, 100, 12000, 50000, 100000}

\* Faulty variant of registerCollision: without the return that drops a hit
\* while the audio is not set up or the simulation is not running.
registerCollisionNoDrop(m, rawStrength, obstacleIndex) ==
    IF ~GatePasses(rawStrength, Threshold(state))
    THEN NotPlayed(m) @@ [accepted |-> FALSE, counted |-> FALSE, strength |-> <<0, 1>>]
    ELSE Value({playClick(m1, obstacleIndex)
                   @@ [accepted |-> TRUE, counted |-> TRUE, strength |-> strength]
                : strength \in {clampFrac(NormStrength(rawStrength, Threshold(state)))},
                  m1 \in {[m EXCEPT !.hitCount = IF m.rateDue THEN 0 ELSE @ + 1,
                                    !.rateDue = FALSE]}})

\* Returns [m, accepted, counted, strength, played, started, stopped, kind]:
\* accepted = the gate let the hit through, counted = hitCount += 1 ran,
\* played = a voice was started by playClick.
registerCollision(m, rawStrength, obstacleIndex) ==
    IF ~GatePasses(rawStrength, Threshold(state))
    THEN NotPlayed(m) @@ [accepted |-> FALSE, counted |-> FALSE, strength |-> <<0, 1>>]
    ELSE Value({(IF audioContext = "null" \/ ~state.running
                 THEN NotPlayed(m1)
                 ELSE playClick(m1, obstacleIndex))
                   @@ [accepted |-> TRUE, counted |-> TRUE, strength |-> strength]
                : strength \in {clampFrac(NormStrength(rawStrength, Threshold(state)))},
                  m1 \in {[m EXCEPT !.hitCount = IF m.rateDue THEN 0 ELSE @ + 1,
                                    !.rateDue = FALSE]}})

-----------------------------------------------------------------------------
\* stepSimulation: the detection pass

WobbleOmega == 21 * Max(state.wobbleFreqHz, 0)

jitterFactor == clamp(state.timingJitter, 0, 100)

\* amplitude of the stochastic term axisJitter * noiseRatio * jitterFactor * U(-1,1)
NoiseAmplitude == (state.axisJitter * noiseRatio * jitterFactor) \div 10000

\* Math.random() * 2 - 1, sampled at its extremes and at 0
UDraws == IF NoiseAmplitude = 0 THEN {0} ELSE {-1, 0, 1}

NoiseDraws == [1..substeps -> [1..state.bladeCount -> UDraws]]

\* Faulty variant: full strength anywhere inside the zone.
RawStrengthFlat(effective) == IF effective < HIT_ANGLE_TOL THEN One ELSE 0

RawStrength(effective) == clamp(One - (effective * One) \div HIT_ANGLE_TOL, 0, One)

\* Faulty variants of the double gate, used to show that the properties below
\* depend on it: without the rising edge, and with a dedup that skips a revolution.
ShouldFireLevel(prev, inZone, revIndex, lastRev) ==
    inZone /\ revIndex > lastRev

ShouldFireSkip(prev, inZone, revIndex, lastRev) ==
    (~prev /\ inZone) /\ revIndex > lastRev + 1

\* the double gate: rising edge and revolution dedup
ShouldFire(prev, inZone, revIndex, lastRev) ==
    (~prev /\ inZone) /\ revIndex > lastRev

\* History only: index of the sweep of blade b over obstacle o that the nominal
\* (wobble-free) blade angle is in; sweep k is centred on the k-th crossing.
PassIndex(baseAngle, b, o) ==
    (baseAngle + BladeOffset(b - 1, state.bladeCount) - obstacles[o].angle + PI) \div TWO_PI

NoHit(m) == NotPlayed(m) @@ [accepted |-> FALSE, counted |-> FALSE, strength |-> <<0, 1>>]

\* The history record of one pair visit.
Visit(m, r, s, b, o, revIndex, pass, rawStrength, inZone, prev, lastRev, fire, newLog) ==
    [s |-> s, b |-> b, o |-> o, rev |-> revIndex, pass |-> pass,
     raw |-> rawStrength, inZone |-> inZone, prev |-> prev,
     lastRev |-> lastRev, fired |-> fire,
     revN |-> IF newLog.rev = revIndex THEN newLog.n ELSE 0,
     passN |-> IF newLog.pass = pass THEN newLog.passN ELSE 0,
     entry |-> newLog.entry,
     threshold |-> Threshold(state), enabled |-> obstacles[o].enabled,
     accepted |-> r.accepted, strength |-> r.strength, counted |-> r.counted,
     hitCountBefore |-> m.hitCount, hitCountAfter |-> r.m.hitCount,
     played |-> r.played, started |-> r.started,
     stopped |-> r.stopped, kind |-> r.kind,
     running |-> state.running, audio |-> audioContext, mode |-> state.voiceMode,
     t |-> m.simTime]

\* History only: the invocations of registerCollision for the pair, by revolution
\* and by sweep, and the revolution in which the current stay in the zone began.
NewLog(log, fire, revIndex, pass, inZone, prev) ==
    [rev   |-> IF fire THEN revIndex ELSE log.rev,
     n     |-> IF fire THEN (IF log.rev = revIndex THEN log.n + 1 ELSE 1) ELSE log.n,
     pass  |-> IF fire THEN pass ELSE log.pass,
     passN |-> IF fire THEN (IF log.pass = pass THEN log.passN + 1 ELSE 1) ELSE log.passN,
     entry |-> IF inZone THEN (IF prev THEN log.entry ELSE revIndex) ELSE NegInf]

\* Faulty variant: the dedup index is written only when the gate accepted the hit.
settlePairAcceptedOnly(m, r, s, b, o, revIndex, pass, rawStrength, inZone, prev, lastRev, fire, newLog) ==
    [r.m EXCEPT
       !.lastHitRev[b][o]   = IF fire /\ r.accepted THEN revIndex ELSE @,
       !.wasInHitZone[b][o] = inZone,
       !.pairLog[<<b, o>>]  = newLog,
       !.calls = IF fire THEN @ + 1 ELSE @,
       !.acceptedBy = IF fire
                      THEN [t \in DOMAIN @ |->
                              @[t] + (IF GatePasses(rawStrength, t) THEN 1 ELSE 0)]
                      ELSE @,
       !.trace = Append(@, Visit(m, r, s, b, o, revIndex, pass, rawStrength,
                                 inZone, prev, lastRev, fire, newLog))]

\* Faulty variant: the zone flag and the dedup index of a disabled obstacle are
\* left alone.
settlePairEnabledOnly(m, r, s, b, o, revIndex, pass, rawStrength, inZone, prev, lastRev, fire, newLog) ==
    [r.m EXCEPT
       !.lastHitRev[b][o]   = IF fire /\ obstacles[o].enabled THEN revIndex ELSE @,
       !.wasInHitZone[b][o] = IF obstacles[o].enabled THEN inZone ELSE @,
       !.pairLog[<<b, o>>]  = newLog,
       !.calls = IF fire THEN @ + 1 ELSE @,
       !.acceptedBy = IF fire
                      THEN [t \in DOMAIN @ |->
                              @[t] + (IF GatePasses(rawStrength, t) THEN 1 ELSE 0)]
                      ELSE @,
       !.trace = Append(@, Visit(m, r, s, b, o, revIndex, pass, rawStrength,
                                 inZone, prev, lastRev, fire, newLog))]

\* The pair's updates once the collision, if any, has been registered (result r).
settlePair(m, r, s, b, o, revIndex, pass, rawStrength, inZone, prev, lastRev, fire, newLog) ==
    [r.m EXCEPT
       !.lastHitRev[b][o]   = IF fire THEN revIndex ELSE @,
       !.wasInHitZone[b][o] = inZone,
       !.pairLog[<<b, o>>]  = newLog,
       !.calls = IF fire THEN @ + 1 ELSE @,
       !.acceptedBy = IF fire
                      THEN [t \in DOMAIN @ |->
                              @[t] + (IF GatePasses(rawStrength, t) THEN 1 ELSE 0)]
                      ELSE @,
       !.trace = Append(@, Visit(m, r, s, b, o, revIndex, pass, rawStrength,
                                 inZone, prev, lastRev, fire, newLog))]

\* Faulty variant: the detector consults the gate before it fires.
decidePairGated(m, s, b, o, revIndex, pass, rawStrength, inZone, prev, lastRev, fire) ==
    Value({settlePair(m, r, s, b, o, revIndex, pass, rawStrength, inZone, prev, lastRev,
                      gated, newLog)
           : gated \in {fire /\ GatePasses(rawStrength, Threshold(state))},
             r \in {IF fire /\ GatePasses(rawStrength, Threshold(state))
                    THEN registerCollision(m, rawStrength, o) ELSE NoHit(m)},
             newLog \in {NewLog(m.pairLog[<<b, o>>],
                                fire /\ GatePasses(rawStrength, Threshold(state)),
                                revIndex, pass, inZone, prev)}})

\* The edge / dedup decision for a pair whose raw strength is known.
decidePair(m, s, b, o, revIndex, pass, rawStrength, inZone, prev, lastRev, fire) ==
    Value({settlePair(m, r, s, b, o, revIndex, pass, rawStrength, inZone, prev, lastRev,
                      fire, newLog)
           : r \in {IF fire THEN registerCollision(m, rawStrength, o) ELSE NoHit(m)},
             newLog \in {NewLog(m.pairLog[<<b, o>>], fire, revIndex, pass, inZone, prev)}})

\* Body of the innermost loop for pair (b, o) in sub-step s.
visitPair(m, s, b, o, wobbleAdjustedAngle, revIndex, baseAngle) ==
    Value({decidePair(m, s, b, o, revIndex, pass, rawStrength, rawStrength > 0, prev, lastRev,
                      ShouldFire(prev, rawStrength > 0, revIndex, lastRev))
           : rawStrength \in
               {RawStrength(Abs(smallestAngleDiff(wobbleAdjustedAngle, obstacles[o].angle)))},
             prev \in {m.wasInHitZone[b][o]},
             lastRev \in {m.lastHitRev[b][o]},
             pass \in {PassIndex(baseAngle, b, o)}})

RECURSIVE obstacleLoop(_, _, _, _, _, _, _)
obstacleLoop(m0, s, b, o, wobbleAdjustedAngle, revIndex, baseAngle) ==
    IF o > Len(obstacles) THEN m0
    ELSE Value({obstacleLoop(visitPair(m, s, b, o, wobbleAdjustedAngle, revIndex, baseAngle),
                             s, b, o + 1, wobbleAdjustedAngle, revIndex, baseAngle)
                : m \in {m0}})

\* Blade b's angle with wobble in the sub-step that ends at time t.
WobbleAdjustedAngle(t, b, phase, u) ==
    LET baseAngle == Omega * t
        angle     == (baseAngle + BladeOffset(b - 1, state.bladeCount)) % TWO_PI
        deterministicWobble ==
            TruncDiv(state.axisJitter * SinMilli(WobbleOmega * t + phase), 1000)
        noise     == TruncDiv(state.axisJitter * noiseRatio * jitterFactor * u, 10000)
        wobble    == deterministicWobble + noise
    IN  angle + wobble

RECURSIVE bladeLoop(_, _, _, _)
bladeLoop(m0, s, b, noiseU) ==
    IF b > state.bladeCount THEN m0
    ELSE Value({Value({bladeLoop(obstacleLoop(m, s, b, 1, adjusted,
                                              (Omega * m.simTime) \div TWO_PI,
                                              Omega * m.simTime),
                                 s, b + 1, noiseU)
                       : adjusted \in {WobbleAdjustedAngle(m.simTime, b,
                                                           m.wobblePhasePerBlade[b],
                                                           noiseU[s][b])}})
                : m \in {m0}})

\* Faulty variant: the last sub-step is left out.
RECURSIVE substepLoopShort(_, _, _, _)
substepLoopShort(m0, s, h, noiseU) ==
    IF s > substeps - 1 THEN m0
    ELSE Value({substepLoopShort(bladeLoop([m EXCEPT !.simTime = @ + h], s, 1, noiseU),
                                 s + 1, h, noiseU)
                : m \in {m0}})

RECURSIVE substepLoop(_, _, _, _)
substepLoop(m0, s, h, noiseU) ==
    IF s > substeps THEN m0
    ELSE Value({substepLoop(bladeLoop([m EXCEPT !.simTime = @ + h], s, 1, noiseU),
                            s + 1, h, noiseU)
                : m \in {m0}})

\* The machine record before a step.
Machine(rateDue) ==
    [wasInHitZone |-> wasInHitZone, lastHitRev |-> lastHitRev,
     wobblePhasePerBlade |-> wobblePhasePerBlade, hitCount |-> hitCount,
     rateDue |-> rateDue, simTime |-> simTime, activeVoices |-> activeVoices,
     voices |-> voices, trace |-> trace, pairLog |-> pairLog,
     acceptedBy |-> acceptedBy, passShape |-> passShape, calls |-> 0]

\* History only: what a detection pass starts from.  `before` holds the blade
\* count and the obstacle angles of the previous pass; atReset tells whether the
\* zone state and the wobble phases are as resetCollisionState leaves them.
Angles(obs) == [i \in 1..Len(obs) |-> obs[i].angle]

Shape(wz, lr, ph, before) ==
    [blades |-> state.bladeCount, obstacles |-> Len(obstacles),
     wzRows |-> Len(wz), lrRows |-> Len(lr),
     wzCols |-> {Len(wz[b]) : b \in 1..Len(wz)},
     lrCols |-> {Len(lr[b]) : b \in 1..Len(lr)},
     angles |-> Angles(obstacles),
     changed |-> before.blades # state.bladeCount \/ before.angles # Angles(obstacles),
     atReset |-> /\ wz = resetHitStates(state, obstacles).wasInHitZone
                 /\ lr = resetHitStates(state, obstacles).lastHitRev
                 /\ ph = resetWobblePhases(state)]

\* Faulty variant: no early return for dt <= 0 or omega <= 0.
stepSimulationNoGuard(dt, noiseU, rateDue) ==
    LET m0 == Machine(rateDue)
        hs == ensureHitStateSize(state, obstacles, wasInHitZone, lastHitRev)
        ph == ensureWobblePhaseSize(state, wobblePhasePerBlade)
        m1 == [m0 EXCEPT !.wasInHitZone = hs.wasInHitZone,
                         !.lastHitRev = hs.lastHitRev,
                         !.wobblePhasePerBlade = ph,
                         !.trace = << >>,
                         !.passShape = Shape(hs.wasInHitZone, hs.lastHitRev, ph, passShape)]
    IN  substepLoop(m1, 1, TruncDiv(dt, substeps), noiseU)

\* stepSimulation(dt); noiseU are the Math.random() draws, rateDue tells whether
\* more than a second has passed since the last hit-rate log.
stepSimulation(dt, noiseU, rateDue) ==
    LET m0 == Machine(rateDue)
    IN  IF dt <= 0 THEN m0
        ELSE IF Omega <= 0 THEN m0
        ELSE
          LET hs == ensureHitStateSize(state, obstacles, wasInHitZone, lastHitRev)
              ph == ensureWobblePhaseSize(state, wobblePhasePerBlade)
              m1 == [m0 EXCEPT !.wasInHitZone = hs.wasInHitZone,
                               !.lastHitRev = hs.lastHitRev,
                               !.wobblePhasePerBlade = ph,
                               !.trace = << >>,
                               !.passShape = Shape(hs.wasInHitZone, hs.lastHitRev, ph, passShape)]
          IN  substepLoop(m1, 1, dt \div substeps, noiseU)

-----------------------------------------------------------------------------
\* Actions

DtSet == {4, 8}

Commit(m) ==
    /\ wasInHitZone' = m.wasInHitZone
    /\ lastHitRev' = m.lastHitRev
    /\ wobblePhasePerBlade' = m.wobblePhasePerBlade
    /\ hitCount' = m.hitCount
    /\ simTime' = m.simTime
    /\ activeVoices' = m.activeVoices
    /\ voices' = m.voices
    /\ trace' = m.trace
    /\ pairLog' = m.pairLog
    /\ acceptedBy' = m.acceptedBy
    /\ passShape' = m.passShape

\* History only: the call stepSimulation(dt) that led to machine m: its inputs,
\* the registerCollision calls it made and whether it left the simulation as it was.
Tick(dt, m) ==
    [dt |-> dt, omega |-> Omega, blades |-> state.bladeCount,
     obstacles |-> Len(obstacles), obstacleCount |-> state.obstacleCount,
     calls |-> m.calls, start |-> simTime, end |-> m.simTime,
     unchanged |-> /\ m.simTime = simTime
                   /\ m.wasInHitZone = wasInHitZone
                   /\ m.lastHitRev = lastHitRev
                   /\ m.wobblePhasePerBlade = wobblePhasePerBlade
                   /\ m.hitCount = hitCount
                   /\ m.activeVoices = activeVoices
                   /\ m.voices = voices]

\* loop(timestamp): one animation frame; dt = (timestamp - lastTimestamp) / 1000
LoopFrame(dt) ==
    /\ rafPending > 0
    /\ IF ~state.running
       THEN /\ rafPending' = rafPending - 1
            /\ UNCHANGED <<state, obstacles, hitVars, hitCount, simTime, lastTimestamp,
                           audioVars, startCalls, activeVoices, voices, preset, dragging, histVars>>
       ELSE IF lastTimestamp = "null"
       THEN /\ lastTimestamp' = "set"
            /\ UNCHANGED <<state, obstacles, hitVars, hitCount, simTime, rafPending,
                           audioVars, startCalls, activeVoices, voices, preset, dragging, histVars>>
       ELSE \E noiseU \in NoiseDraws, rateDue \in BOOLEAN :
              \E m \in {stepSimulation(dt, noiseU, rateDue)} :
                  /\ Cardinality(m.voices) <= MaxVoices
                  /\ m.hitCount <= MaxHitCount
                  /\ Commit(m)
                  /\ tick' = Tick(dt, m)
                  /\ UNCHANGED <<state, obstacles, lastTimestamp, rafPending, audioVars,
                                 startCalls, preset, dragging>>

\* stepSimulation(dt) entered by a caller other than loop: the step itself does
\* not look at state.running or at the audio setup, only registerCollision does.
StepDirect(dt) ==
    \E noiseU \in NoiseDraws, rateDue \in BOOLEAN :
       \E m \in {stepSimulation(dt, noiseU, rateDue)} :
           /\ Cardinality(m.voices) <= MaxVoices
           /\ m.hitCount <= MaxHitCount
           /\ Commit(m)
           /\ tick' = Tick(dt, m)
           /\ UNCHANGED <<state, obstacles, lastTimestamp, rafPending, audioVars,
                          startCalls, preset, dragging>>

\* Faulty variant of the 'ended' listener: it never clears the slot.
VoiceEndedNoClear ==
    \E v \in voices :
       /\ voices' = voices \ {v}
       /\ UNCHANGED <<state, obstacles, hitVars, hitCount, simTime, lastTimestamp,
                      audioVars, startCalls, rafPending, activeVoices, preset, dragging,
                      histVars>>

\* Faulty variant of the 'ended' listener: it clears the slot it was registered
\* for without comparing the slot's source with its own.
VoiceEndedAlwaysClear ==
    \E v \in voices :
       /\ voices' = voices \ {v}
       /\ activeVoices' =
            IF v.registered
            THEN [activeVoices EXCEPT ![v.kind][v.o] = NULL]
            ELSE activeVoices
       /\ UNCHANGED <<state, obstacles, hitVars, hitCount, simTime, lastTimestamp,
                      audioVars, startCalls, rafPending, preset, dragging, histVars>>

\* The 'ended' event of a buffer source (natural end or after a forced stop)
VoiceEnded ==
    \E v \in voices :
       /\ voices' = voices \ {v}
       /\ activeVoices' =
            IF v.registered /\ activeVoices[v.kind][v.o] = v.id
            THEN [activeVoices EXCEPT ![v.kind][v.o] = NULL]
            ELSE activeVoices
       /\ UNCHANGED <<state, obstacles, hitVars, hitCount, simTime, lastTimestamp,
                      audioVars, startCalls, rafPending, preset, dragging, histVars>>

\* How far the synchronous part of ensureAudio's setup gets: no AudioContext
\* can be made (nothing is assigned), a later statement throws (the context, and
\* perhaps the master gain, stay assigned), or it reaches `await loadSampleBuffers`.
\* Whenever it throws, the catch handler resets audioReadyPromise and
\* startSimulation returns.
SetupOutcomes == {"noContext", "contextOnly", "gainOnly", "loading"}

\* Click on the Start/Stop button: stopSimulation, or startSimulation up to its
\* first await.
ToggleClick ==
    IF state.running
    THEN /\ state' = [state EXCEPT !.running = FALSE]
         /\ UNCHANGED <<obstacles, hitVars, hitCount, simTime, lastTimestamp, audioVars,
                        startCalls, rafPending, activeVoices, voices, preset, dragging, histVars>>
    ELSE /\ startCalls.audio + startCalls.resume + rafPending <= MaxStarts
         /\ IF audioReadyPromise = "resolved"
            THEN /\ startCalls' = [startCalls EXCEPT !.resume = @ + 1]
                 /\ UNCHANGED audioVars
            ELSE IF audioReadyPromise = "pending"
            THEN /\ startCalls' = [startCalls EXCEPT !.audio = @ + 1]
                 /\ UNCHANGED audioVars
            ELSE \E outcome \in SetupOutcomes :
                   /\ startCalls' = IF outcome = "loading"
                                    THEN [startCalls EXCEPT !.audio = @ + 1]
                                    ELSE startCalls
                   /\ audioReadyPromise' = IF outcome = "loading" THEN "pending" ELSE "null"
                   /\ audioContext' = IF outcome = "noContext" THEN audioContext ELSE "ctx"
                   /\ masterGain' = IF outcome \in {"noContext", "contextOnly"}
                                    THEN masterGain ELSE "gain"
                   /\ UNCHANGED sampleBuffers
         /\ UNCHANGED <<state, obstacles, hitVars, hitCount, simTime, lastTimestamp,
                        rafPending, activeVoices, voices, preset, dragging, histVars>>

SampleCounts == {0, 1}

\* loadSampleBuffers settles: ensureAudio resolves and every startSimulation call
\* waiting for it goes on to await audioContext.resume()
EnsureAudioSettle ==
    /\ audioReadyPromise = "pending"
    /\ \E n \in SampleCounts : sampleBuffers' = n
    /\ \E ok \in BOOLEAN :
         IF ok
         THEN /\ audioReadyPromise' = "resolved"
              /\ startCalls' = [audio |-> 0, resume |-> startCalls.resume + startCalls.audio]
         ELSE /\ audioReadyPromise' = "null"
              /\ startCalls' = [startCalls EXCEPT !.audio = 0]
    /\ UNCHANGED <<state, obstacles, hitVars, hitCount, simTime, lastTimestamp,
                   audioContext, masterGain, rafPending, activeVoices, voices, preset, dragging,
                   histVars>>

\* audioContext.resume() settles for one startSimulation call
ResumeSettle ==
    /\ startCalls.resume > 0
    /\ startCalls' = [startCalls EXCEPT !.resume = @ - 1]
    /\ state' = [state EXCEPT !.running = TRUE]
    /\ lastTimestamp' = "null"
    /\ rafPending' = rafPending + 1
    /\ UNCHANGED <<obstacles, hitVars, hitCount, simTime, audioVars, activeVoices,
                   voices, preset, dragging, histVars>>

-----------------------------------------------------------------------------
\* Configuration handlers

resetCollisionState(st, obs) ==
    /\ wasInHitZone' = resetHitStates(st, obs).wasInHitZone
    /\ lastHitRev' = resetHitStates(st, obs).lastHitRev
    /\ wobblePhasePerBlade' = resetWobblePhases(st)

\* resetHitStates() called on its own on the current arrays
ResetHitStatesCall ==
    \E r \in {resetHitStatesOn(wasInHitZone, lastHitRev, state, obstacles)} :
       /\ wasInHitZone' = r.wasInHitZone
       /\ lastHitRev' = r.lastHitRev
       /\ UNCHANGED <<state, obstacles, wobblePhasePerBlade, hitCount, simTime, lastTimestamp,
                      audioVars, startCalls, rafPending, activeVoices, voices, preset,
                      dragging, histVars>>

\* resetWobblePhases() called on its own on the current array
ResetWobblePhasesCall ==
    /\ wobblePhasePerBlade' = resetWobblePhasesOn(wobblePhasePerBlade, state)
    /\ UNCHANGED <<state, obstacles, wasInHitZone, lastHitRev, hitCount, simTime,
                   lastTimestamp, audioVars, startCalls, rafPending, activeVoices, voices,
                   preset, dragging, histVars>>

NewObstacle(angle, sampleIndex) ==
    [angle |-> angle, sampleIndex |-> sampleIndex, volume |-> 100, enabled |-> TRUE]

\* Faulty variant: never fewer than one obstacle.
rebuildObstaclesAtLeastOne(st, previous) ==
    LET count == Max(1, st.obstacleCount)
    IN  [i \in 1..count |->
           IF i <= Len(previous)
           THEN previous[i]
           ELSE NewObstacle(0, -1)]

\* rebuildObstacles(): the new obstacle list for st.obstacleCount
rebuildObstacles(st, previous) ==
    LET count == Max(0, st.obstacleCount)
        availableSamples == sampleBuffers
    IN  [i \in 1..count |->
           IF i <= Len(previous)
           THEN [previous[i] EXCEPT !.angle = ((@ % TWO_PI) + TWO_PI) % TWO_PI]
           ELSE NewObstacle(((((TWO_PI * (i - 1)) \div count) % TWO_PI) + TWO_PI) % TWO_PI,
                            IF availableSamples > 0 THEN (i - 1) % availableSamples
                            ELSE -1)]

BladeCounts == {0, 1, 2}
ObstacleCounts == {0, 1, 2}

RpmSet == {-200, 0, 200}

\* rpmSlider "input": state.rpm = v, then resetCollisionState()
SetRpm ==
    \E v \in RpmSet :
       /\ v # state.rpm
       /\ state' = [state EXCEPT !.rpm = v]
       /\ resetCollisionState(state', obstacles)
       /\ UNCHANGED <<obstacles, hitCount, simTime, lastTimestamp, audioVars, startCalls,
                      rafPending, activeVoices, voices, preset, dragging, histVars>>

\* bladeSlider "input": state.bladeCount = v, then resetCollisionState()
SetBladeCount ==
    \E v \in BladeCounts :
       /\ v # state.bladeCount
       /\ state' = [state EXCEPT !.bladeCount = v]
       /\ resetCollisionState(state', obstacles)
       /\ UNCHANGED <<obstacles, hitCount, simTime, lastTimestamp, audioVars, startCalls,
                      rafPending, activeVoices, voices, preset, dragging, histVars>>

\* obstacleSlider "input": state.obstacleCount = v, then rebuildObstacles()
SetObstacleCount ==
    \E v \in ObstacleCounts :
       /\ v # state.obstacleCount
       /\ state' = [state EXCEPT !.obstacleCount = v]
       /\ obstacles' = rebuildObstacles(state', obstacles)
       /\ resetCollisionState(state', obstacles')
       /\ UNCHANGED <<hitCount, simTime, lastTimestamp, audioVars, startCalls,
                      rafPending, activeVoices, voices, preset, dragging, histVars>>

\* voiceModeSelect "change"
SetVoiceMode ==
    \E mode \in {"mono", "poly"} :
       /\ mode # state.voiceMode
       /\ state' = [state EXCEPT !.voiceMode = IF mode = "poly" THEN "poly" ELSE "mono"]
       /\ UNCHANGED <<obstacles, hitVars, hitCount, simTime, lastTimestamp, audioVars,
                      startCalls, rafPending, activeVoices, voices, preset, dragging, histVars>>

\* thresholdSlider "input": the default 0.12 or 0.5
ScenarioThresholds == {12000, 50000}

SetHitThreshold ==
    \E v \in ScenarioThresholds :
       /\ v # state.hitThreshold
       /\ state' = [state EXCEPT !.hitThreshold = v]
       /\ UNCHANGED <<obstacles, hitVars, hitCount, simTime, lastTimestamp, audioVars,
                      startCalls, rafPending, activeVoices, voices, preset, dragging, histVars>>

\* Values of the impactDynamics and softHitLowCut sliders, in percent
PercentSet == {0, 40, 100}

\* impactDynamicsSlider "input"
SetImpactDynamics ==
    \E v \in PercentSet :
       /\ v # state.impactDynamics
       /\ state' = [state EXCEPT !.impactDynamics = v]
       /\ UNCHANGED <<obstacles, hitVars, hitCount, simTime, lastTimestamp, audioVars,
                      startCalls, rafPending, activeVoices, voices, preset, dragging, histVars>>

\* softHitLowCutSlider "input"
SetSoftHitLowCut ==
    \E v \in PercentSet :
       /\ v # state.softHitLowCut
       /\ state' = [state EXCEPT !.softHitLowCut = v]
       /\ UNCHANGED <<obstacles, hitVars, hitCount, simTime, lastTimestamp, audioVars,
                      startCalls, rafPending, activeVoices, voices, preset, dragging, histVars>>

\* getSampleOptions(): the values the per-obstacle select offers
SampleOptions == (0..(sampleBuffers - 1)) \cup {-1}

\* per-obstacle sample select "change"
SelectSample ==
    \E o \in 1..Len(obstacles), idx \in SampleOptions :
       /\ idx # obstacles[o].sampleIndex
       /\ obstacles' = [obstacles EXCEPT ![o].sampleIndex = idx]
       /\ UNCHANGED <<state, hitVars, hitCount, simTime, lastTimestamp, audioVars,
                      startCalls, rafPending, activeVoices, voices, preset, dragging, histVars>>

\* per-obstacle On/Off toggle "click"
ToggleEnabled ==
    \E o \in 1..Len(obstacles) :
       /\ obstacles' = [obstacles EXCEPT ![o].enabled = (@ = FALSE)]
       /\ UNCHANGED <<state, hitVars, hitCount, simTime, lastTimestamp, audioVars,
                      startCalls, rafPending, activeVoices, voices, preset, dragging, histVars>>

\* Angles a pointer position gives: clamp(ratio, 0, 1) * TWO_PI, both ends included
DragAngles == {170, TWO_PI}

\* handlePointerMove(event): obstacles[index].angle = ratio * TWO_PI
MoveThumb(index, rad) ==
    /\ obstacles' = [obstacles EXCEPT ![index].angle = rad]
    /\ UNCHANGED <<state, hitVars, hitCount, simTime, lastTimestamp, audioVars,
                   startCalls, rafPending, activeVoices, voices, preset, histVars>>

\* "pointerdown" on an angle thumb: the handlers are installed and
\* handlePointerMove(event) runs once
PointerDown ==
    \E index \in 1..Len(obstacles), rad \in DragAngles :
       /\ dragging = NULL
       /\ dragging' = index
       /\ MoveThumb(index, rad)

\* "pointermove" during a drag (a thumb whose obstacle is gone throws and changes
\* nothing)
PointerMove ==
    \E rad \in DragAngles :
       /\ dragging # NULL
       /\ dragging <= Len(obstacles)
       /\ rad # obstacles[dragging].angle
       /\ MoveThumb(dragging, rad)
       /\ UNCHANGED dragging

\* "pointerup" / "pointercancel": handlePointerUp removes the handlers and calls
\* resetCollisionState()
PointerUp ==
    /\ dragging # NULL
    /\ dragging' = NULL
    /\ resetCollisionState(state, obstacles)
    /\ UNCHANGED <<state, obstacles, hitCount, simTime, lastTimestamp, audioVars,
                   startCalls, rafPending, activeVoices, voices, preset, histVars>>

\* Number of enabled obstacles among the first i
RECURSIVE EnabledBefore(_, _)
EnabledBefore(obs, i) ==
    IF i = 0 THEN 0
    ELSE EnabledBefore(obs, i - 1) + (IF obs[i].enabled THEN 1 ELSE 0)

\* alignObstaclesToBlades(): the enabled obstacles are spread evenly, then
\* resetCollisionState(); nothing happens without an enabled obstacle
AlignObstacles ==
    LET count == EnabledBefore(obstacles, Len(obstacles))
    IN  /\ count > 0
        /\ obstacles' = [i \in 1..Len(obstacles) |->
                           IF obstacles[i].enabled
                           THEN [obstacles[i] EXCEPT
                                   !.angle = (TWO_PI * EnabledBefore(obstacles, i - 1))
                                               \div count]
                           ELSE obstacles[i]]
        /\ resetCollisionState(state, obstacles')
        /\ UNCHANGED <<state, hitCount, simTime, lastTimestamp, audioVars, startCalls,
                       rafPending, activeVoices, voices, preset, dragging, histVars>>

NoPreset == [saved |-> FALSE]

\* snapshotCurrentPreset(), the fields applyPreset reads back
snapshotCurrentPreset ==
    [saved |-> TRUE, rpm |-> state.rpm, bladeCount |-> state.bladeCount,
     axisJitter |-> state.axisJitter, hitThreshold |-> state.hitThreshold,
     obstacleCount |-> state.obstacleCount, wobbleFreqHz |-> state.wobbleFreqHz,
     timingJitter |-> state.timingJitter, softHitLowCut |-> state.softHitLowCut,
     impactDynamics |-> state.impactDynamics,
     obstacleVolumes |-> [i \in 1..Len(obstacles) |-> obstacles[i].volume],
     obstacleSampleIndices |-> [i \in 1..Len(obstacles) |-> obstacles[i].sampleIndex],
     obstacleAnglesDeg |-> [i \in 1..Len(obstacles) |-> obstacles[i].angle % TWO_PI]]

\* savePreset(0) (the overwrite is confirmed)
SavePreset ==
    /\ preset # snapshotCurrentPreset
    /\ preset' = snapshotCurrentPreset
    /\ UNCHANGED <<dragging, state, obstacles, hitVars, hitCount, simTime, lastTimestamp, audioVars,
                   startCalls, rafPending, activeVoices, voices, histVars>>

\* applyObstacleVolumes, applyObstacleSamples, applyObstacleAngles after the rebuild
ApplyObstacleFields(obs, p) ==
    [i \in 1..Len(obs) |->
       IF i <= Len(p.obstacleVolumes)
       THEN [obs[i] EXCEPT !.volume = clamp(p.obstacleVolumes[i], 0, 150),
                           !.sampleIndex = p.obstacleSampleIndices[i],
                           !.angle = p.obstacleAnglesDeg[i] % TWO_PI]
       ELSE obs[i]]

\* loadPreset(0) -> applyPreset(preset): every slider is set (its onChange runs),
\* the obstacle fields are applied, then resetCollisionState()
LoadPreset ==
    /\ preset.saved
    /\ state' = [state EXCEPT !.rpm = preset.rpm, !.bladeCount = preset.bladeCount,
                              !.axisJitter = preset.axisJitter,
                              !.timingJitter = preset.timingJitter,
                              !.impactDynamics = preset.impactDynamics,
                              !.softHitLowCut = preset.softHitLowCut,
                              !.hitThreshold = preset.hitThreshold,
                              !.wobbleFreqHz = preset.wobbleFreqHz,
                              !.obstacleCount = preset.obstacleCount]
    /\ obstacles' = ApplyObstacleFields(rebuildObstacles(state', obstacles), preset)
    /\ resetCollisionState(state', obstacles')
    /\ UNCHANGED <<hitCount, simTime, lastTimestamp, audioVars, startCalls,
                   rafPending, activeVoices, voices, preset, dragging, histVars>>

-----------------------------------------------------------------------------
\* Initial states

\* The state object once every slider is synchronised at load (bindSlider's
\* initial apply()): its literals, with the blade and obstacle sliders at 2 and the
\* axis slider at 0.
DefaultState ==
    [running |-> FALSE, rpm |-> 200, bladeCount |-> 2, axisJitter |-> 0,
     timingJitter |-> 30, softHitLowCut |-> 40, hitThreshold |-> 12000,
     obstacleCount |-> 2, wobbleFreqHz |-> 3, voiceMode |-> "mono",
     impactDynamics |-> 40]

Layout(angles) == [i \in 1..Len(angles) |-> NewObstacle(angles[i], -1)]

\* The page as loaded: sliders synchronised into st, obstacles built, nothing started.
\* acceptedBy is kept for the thresholds in `thresholds`.
Constructed(st, obs, thresholds) ==
    /\ state = st
    /\ obstacles = obs
    /\ wasInHitZone = resetHitStates(st, obs).wasInHitZone
    /\ lastHitRev = resetHitStates(st, obs).lastHitRev
    /\ wobblePhasePerBlade = resetWobblePhases(st)
    /\ hitCount = 0
    /\ simTime = 0
    /\ lastTimestamp = "null"
    /\ activeVoices = [sample |-> NoSlots, noise |-> NoSlots]
    /\ voices = {}
    /\ preset = NoPreset
    /\ dragging = NULL
    /\ trace = << >>
    /\ pairLog = [p \in Pairs |-> [rev |-> NegInf, n |-> 0, pass |-> NegInf, passN |-> 0,
                                   entry |-> NegInf]]
    /\ acceptedBy = [t \in thresholds |-> 0]
    /\ passShape = Shape(wasInHitZone, lastHitRev, wobblePhasePerBlade,
                         [blades |-> st.bladeCount, angles |-> Angles(obs)])
    /\ tick = [dt |-> 0, omega |-> 0, blades |-> st.bladeCount, obstacles |-> Len(obs),
               obstacleCount |-> st.obstacleCount, calls |-> 0, unchanged |-> TRUE]

NotStarted ==
    /\ audioContext = "null"
    /\ masterGain = "null"
    /\ sampleBuffers = 0
    /\ audioReadyPromise = "null"
    /\ startCalls = [audio |-> 0, resume |-> 0]
    /\ rafPending = 0

\* After Start was clicked and ensureAudio and resume() settled: the loop is scheduled.
Started(samples) ==
    /\ audioContext = "ctx"
    /\ masterGain = "gain"
    /\ sampleBuffers = samples
    /\ audioReadyPromise = "resolved"
    /\ startCalls = [audio |-> 0, resume |-> 0]
    /\ rafPending = 1

Init ==
    /\ NotStarted
    /\ Constructed(DefaultState, rebuildObstacles(DefaultState, << >>), {})

-----------------------------------------------------------------------------
\* Specifications

\* A sweep without wobble: the simulation is running, the obstacles were placed
\* before the first frame.  Each configuration is <<rpm, bladeCount, obstacle angles>>.
SweepConfigs ==
    {<<200, 1, <<170>>>>, <<200, 2, <<0, 269>>>>, <<600, 1, <<0>>>>, <<600, 2, <<0, 2520>>>>}

\* The simulation runs with settings st and obstacles at the given angles.
Running(st, angles, thresholds, samples) ==
    /\ Constructed([st EXCEPT !.running = TRUE, !.obstacleCount = Len(angles)],
                   Layout(angles), thresholds)
    /\ Started(samples)

InitSweep ==
    \E c \in SweepConfigs :
       Running([DefaultState EXCEPT !.rpm = c[1], !.bladeCount = c[2]], c[3], {}, 0)

Frame == \E dt \in DtSet : simTime + dt <= MaxTime /\ LoopFrame(dt)

NextSweep == Frame \/ VoiceEnded

SpecSweep == InitSweep /\ [][NextSweep]_vars

\* The gate: one blade at h = 1 meets the obstacle at 170 with rawStrength 0.5,
\* the one at 269 with 0.005 (below the floor), and at rpm 600 the one at 210 with
\* rawStrength 1.  hitThreshold is any of ThresholdSet or a value outside [0, 1].
GateConfigs == {<<200, <<170>>>>, <<200, <<269>>>>, <<600, <<210>>>>}

SliderThresholds == ThresholdSet \cup {-5000, 150000}

InitGate ==
    \E c \in GateConfigs, th \in SliderThresholds :
       Running([DefaultState EXCEPT !.rpm = c[1], !.bladeCount = 1, !.hitThreshold = th],
               c[2], ThresholdSet, 0)

FrameGate == \E dt \in DtSet : simTime + dt <= MaxTimeShort /\ LoopFrame(dt)

NextGate == FrameGate \/ VoiceEnded

SpecGate == InitGate /\ [][NextGate]_vars

\* A sweep with random wobble only: axisJitter 0.5 rad, timingJitter 100 %, so the
\* noise term is up to 60 angle units; wobbleFreqHz 0 and phase 0 make the
\* deterministic term sin(0) = 0.  One blade, one obstacle dragged to 4880, just
\* before the angle at which revIndex increments.
JitterState ==
    [DefaultState EXCEPT !.rpm = 200, !.bladeCount = 1, !.axisJitter = 401,
                         !.timingJitter = 100, !.wobbleFreqHz = 0]

InitJitter == Running(JitterState, <<4880>>, {}, 0)

FrameJitter == simTime + 4 <= MaxTimeJitter /\ LoopFrame(4)

NextJitter == FrameJitter \/ VoiceEnded

SpecJitter == InitJitter /\ [][NextJitter]_vars

\* The voices: one blade at rpm 600 hits the obstacle at 210 every 24 time units
\* while the user switches the voice mode, the obstacle's sample and its On/Off flag.
InitVoice == Running([DefaultState EXCEPT !.rpm = 600, !.bladeCount = 1], <<210>>, {}, 1)

FrameVoice == \E dt \in DtSet : simTime + dt <= MaxTimeShort /\ LoopFrame(dt)

NextVoice ==
    \/ FrameVoice
    \/ VoiceEnded
    \/ SetVoiceMode
    \/ SelectSample
    \/ ToggleEnabled

SpecVoice == InitVoice /\ [][NextVoice]_vars

\* Reconfiguration while the simulation runs: blade count, obstacle count, presets.
InitConfig == Running(DefaultState, <<0, 2520>>, {}, 0)

FrameConfig == simTime + 4 <= MaxTimeConfig /\ LoopFrame(4)

NextConfig ==
    \/ FrameConfig
    \/ VoiceEnded
    \/ SetBladeCount
    \/ SetObstacleCount
    \/ SavePreset
    \/ LoadPreset

SpecConfig == InitConfig /\ [][NextConfig]_vars

\* Obstacle placement while the simulation runs: drags of the angle thumbs, the
\* align button and the obstacle count.
InitDrag == Running([DefaultState EXCEPT !.bladeCount = 1], <<0>>, {}, 0)

FrameDrag == simTime + 4 <= MaxTimeConfig /\ LoopFrame(4)

NextDrag ==
    \/ FrameDrag
    \/ VoiceEnded
    \/ PointerDown
    \/ PointerMove
    \/ PointerUp
    \/ AlignObstacles
    \/ SetObstacleCount

SpecDrag == InitDrag /\ [][NextDrag]_vars

\* Degenerate ticks and configurations: frames whose timestamp does not advance
\* (or goes back), rpm at or below 0, no blades, no obstacles.
DtAny == {-4, 0, 4}

InitDegenerate == Running([DefaultState EXCEPT !.bladeCount = 1], <<0>>, {}, 0)

FrameDegenerate ==
    \E dt \in DtAny : simTime + 4 <= MaxTimeConfig /\ LoopFrame(dt)

NextDegenerate ==
    \/ FrameDegenerate
    \/ VoiceEnded
    \/ SetRpm
    \/ SetBladeCount
    \/ SetObstacleCount

SpecDegenerate == InitDegenerate /\ [][NextDegenerate]_vars

\* Redundant resets while the simulation runs: one blade at rpm 200 sweeps the
\* obstacle at 170 (in the zone at sub-steps 1 to 5 of each revolution, so that the
\* first frame ends inside it) while the user presses an angle thumb exactly
\* where it stands and releases it: the angle is rewritten with its own value
\* and handlePointerUp calls resetCollisionState().
InitReset == Running([DefaultState EXCEPT !.rpm = 200, !.bladeCount = 1], <<170>>, {}, 0)

FrameReset == simTime + 4 <= MaxTimeShort /\ LoopFrame(4)

PressInPlace == PointerDown /\ obstacles' = obstacles

NextReset ==
    \/ FrameReset
    \/ VoiceEnded
    \/ PressInPlace
    \/ PointerUp

SpecReset == InitReset /\ [][NextReset]_vars

\* Blade-count changes mixed with changes of obstacle angles (drag, align) while
\* the simulation runs.
NextWobble ==
    \/ FrameDrag
    \/ VoiceEnded
    \/ SetBladeCount
    \/ PointerDown
    \/ PointerMove
    \/ PointerUp
    \/ AlignObstacles

SpecWobble == InitDrag /\ [][NextWobble]_vars

\* Stop and restart while the simulation runs with two blades and two obstacles;
\* a frame of dt = 4 ends with a blade on the obstacle at 280.
InitStop == Running(DefaultState, <<280, 2520>>, {}, 0)

FrameStop == \E dt \in DtSet : simTime + dt <= MaxTimeConfig /\ LoopFrame(dt)

NextStop ==
    \/ FrameStop
    \/ VoiceEnded
    \/ ToggleClick
    \/ ResumeSettle

SpecStop == InitStop /\ [][NextStop]_vars

\* The tone mappers: hits at rpm 600 while the user moves the impactDynamics,
\* softHitLowCut and hitThreshold sliders.
FrameTone == simTime + 4 <= MaxTimeConfig /\ LoopFrame(4)

NextTone ==
    \/ FrameTone
    \/ VoiceEnded
    \/ SetImpactDynamics
    \/ SetSoftHitLowCut
    \/ SetHitThreshold

SpecTone == InitVoice /\ [][NextTone]_vars

\* The scenario rpm = 200, three blades, one obstacle at angle 0, axisJitter = 0,
\* frames of dt = 1/60 s, over a little more than two revolutions (a revolution
\* is 72 sub-steps), with the threshold slider at 0.12 or 0.5.
InitScenario ==
    \E th \in ScenarioThresholds :
       Running([DefaultState EXCEPT !.rpm = 200, !.bladeCount = 3, !.hitThreshold = th],
               <<0>>, {}, 0)

FrameScenario == simTime + 4 <= MaxTime /\ LoopFrame(4)

NextScenario ==
    \/ FrameScenario
    \/ VoiceEnded
    \/ SetHitThreshold

SpecScenario == InitScenario /\ [][NextScenario]_vars

\* Changes of the gate, tone and voice settings and Stop while one blade at rpm
\* 200 sweeps the obstacle at 210, which it enters with rawStrength 0.3.
InitSeparation ==
    Running([DefaultState EXCEPT !.rpm = 200, !.bladeCount = 1], <<210>>, {}, 0)

NextSeparation ==
    \/ FrameTone
    \/ VoiceEnded
    \/ SetHitThreshold
    \/ SetImpactDynamics
    \/ SetSoftHitLowCut
    \/ SetVoiceMode
    \/ ToggleClick

SpecSeparation == InitSeparation /\ [][NextSeparation]_vars

\* The two resets applied on their own, for every blade count and obstacle
\* count the sliders give, on the arrays as the detection passes leave them.
FrameIdem == simTime + 4 <= MaxTimeConfig /\ LoopFrame(4)

NextIdem ==
    \/ FrameIdem
    \/ VoiceEnded
    \/ SetBladeCount
    \/ SetObstacleCount
    \/ ResetHitStatesCall
    \/ ResetWobblePhasesCall

SpecIdem == InitReset /\ [][NextIdem]_vars

\* The page from its load on with one blade and one obstacle at angle 0: start
\* attempts that fail or succeed, stop, frames of the loop, and simulation steps
\* taken whether or not the audio setup has completed.
InitStart ==
    /\ NotStarted
    /\ Constructed([DefaultState EXCEPT !.bladeCount = 1, !.obstacleCount = 1],
                   Layout(<<0>>), {})

FrameStart == simTime + 4 <= MaxTimeShort /\ LoopFrame(4)

StepStart == simTime + 4 <= MaxTimeShort /\ StepDirect(4)

NextStart ==
    \/ ToggleClick
    \/ EnsureAudioSettle
    \/ ResumeSettle
    \/ FrameStart
    \/ StepStart
    \/ VoiceEnded

SpecStart == InitStart /\ [][NextStart]_vars

\* The page from its load on with one blade and one obstacle at angle 0: clicks
\* on the Start/Stop button, the awaits of startSimulation settling in any
\* order, and the pending animation-frame callbacks.
NextChain ==
    \/ ToggleClick
    \/ EnsureAudioSettle
    \/ ResumeSettle
    \/ FrameStart
    \/ VoiceEnded

SpecChain == InitStart /\ [][NextChain]_vars

\* The page from its load on: start and stop, frames, and every reconfiguration.
FrameAny == simTime + 4 <= MaxTimeConfig /\ LoopFrame(4)

Next ==
    \/ ToggleClick
    \/ EnsureAudioSettle
    \/ ResumeSettle
    \/ FrameAny
    \/ VoiceEnded
    \/ SetBladeCount
    \/ SetObstacleCount
    \/ SavePreset
    \/ LoadPreset

Spec == Init /\ [][Next]_vars

-----------------------------------------------------------------------------
\* Properties of the detector without wobble (SpecSweep)

Visits == {trace[i] : i \in 1..Len(trace)}

\* C1: with axisJitter = 0, while a blade stays in an obstacle's zone over
\* consecutive sub-steps of one revolution, registerCollision has been invoked
\* exactly once for the pair in that revolution, and an in-zone sub-step that
\* follows an in-zone sub-step never invokes it.
C1_EdgeTriggering ==
    state.axisJitter = 0 =>
      \A e \in Visits :
         /\ (e.inZone /\ e.prev) => ~e.fired
         /\ (e.inZone /\ e.entry = e.rev) => e.revN = 1

\* a second or later in-zone sub-step of a stay that began in the current revolution
C1_Witness ==
    /\ state.axisJitter = 0
    /\ \E e \in Visits :
          e.inZone /\ e.prev /\ e.entry = e.rev /\ ~e.fired /\ e.revN = 1

\* C3: once a pair has fired, a re-entry into the zone on a later revolution
\* invokes registerCollision, and it is the only invocation for the pair in that
\* revolution.
C3_RevolutionDedup ==
    \A e \in Visits :
       /\ (e.lastRev # NegInf /\ ~e.prev /\ e.inZone /\ e.rev > e.lastRev)
             => (e.fired /\ e.revN = 1)
       /\ e.fired => e.revN = 1
       /\ (e.lastRev # NegInf /\ e.inZone /\ e.entry = e.rev /\ e.entry > 0) => e.revN = 1

\* a pair that fired in an earlier revolution fires on re-entry
C3_Witness ==
    \E e \in Visits :
       e.lastRev # NegInf /\ ~e.prev /\ e.inZone /\ e.rev > e.lastRev /\ e.fired

-----------------------------------------------------------------------------
\* The detector with wobble (SpecJitter)

\* C2: the detector never invokes registerCollision more than once for one
\* physical pass of a blade over an obstacle, whatever the wobble; a second
\* rising edge in the same pass does not fire.
C2_OncePerPass ==
    \A e \in Visits : e.fired => e.passN = 1

-----------------------------------------------------------------------------
\* The gate and the normaliser (SpecGate)

Fired == {e \in Visits : e.fired}

IsZero(f) == f[1] = 0
IsOne(f) == f[1] = f[2]
InUnit(f) == f[2] > 0 /\ 0 <= f[1] /\ f[1] <= f[2]

\* C4: over one and the same sequence of detections (the detector does not read
\* hitThreshold), the hits accepted under a threshold t2 never outnumber the hits
\* accepted under a smaller threshold t1, at every prefix of the run.
C4_MonotonicGating ==
    \A t1 \in DOMAIN acceptedBy, t2 \in DOMAIN acceptedBy :
       t1 < t2 => acceptedBy[t2] <= acceptedBy[t1]

\* a detection was accepted under one threshold and gated out under a larger one
C4_Witness ==
    \E t1 \in DOMAIN acceptedBy, t2 \in DOMAIN acceptedBy :
       t1 < t2 /\ acceptedBy[t2] < acceptedBy[t1]

\* C5 as stated: an accepted hit has strength in [0, 1], strength 0 exactly when
\* rawStrength = threshold, and strength 1 when rawStrength = 1 and threshold < 1.
C5_AsStated ==
    \A e \in Fired :
       e.accepted =>
         /\ InUnit(e.strength)
         /\ IsZero(e.strength) <=> (e.raw = e.threshold)
         /\ (e.raw = One /\ e.threshold < One) => IsOne(e.strength)

\* C5 amended: an accepted hit has strength in [0, 1]; strength 0 exactly when
\* rawStrength = threshold and 1 - threshold > 1e-5 (otherwise every accepted
\* hit has strength 1); strength 1 when rawStrength = 1 and threshold < 1.
C5_NormalisedStrength ==
    \A e \in Fired :
       e.accepted =>
         /\ InUnit(e.strength)
         /\ IsZero(e.strength) <=> (e.raw = e.threshold /\ One - e.threshold > DenomEps)
         /\ (One - e.threshold <= DenomEps) => IsOne(e.strength)
         /\ (e.raw = One /\ e.threshold < One) => IsOne(e.strength)

\* an accepted hit exactly on a threshold below 1
C5_Witness ==
    \E e \in Fired :
       e.accepted /\ e.raw = e.threshold /\ e.threshold < One /\ IsZero(e.strength)

\* C6: with hitThreshold = 1.0 the normaliser is on its denom <= 1e-5 branch; a
\* hit with rawStrength >= 1 is accepted with strength 1 and every hit with
\* rawStrength < 1 is gated out and never reaches playClick.
C6_ThresholdOne ==
    state.hitThreshold = One =>
      /\ One - Threshold(state) <= DenomEps
      /\ \A e \in Fired :
            /\ e.raw >= One => (e.accepted /\ IsOne(e.strength) /\ e.played)
            /\ e.raw < One => (~e.accepted /\ ~e.played /\ e.started = NULL)

\* a perfectly centred hit under hitThreshold = 1.0
C6_Witness ==
    /\ state.hitThreshold = One
    /\ \E e \in Fired : e.raw >= One /\ e.accepted /\ IsOne(e.strength)

\* C7: a collision whose rawStrength is below the 0.01 floor or below
\* clamp(hitThreshold, 0, 1) is dropped by registerCollision: playClick is not
\* called, no voice is started or stopped, and hitCount is left alone.
C7_HardGate ==
    \A e \in Fired :
       (e.raw < minStrength \/ e.raw < clamp(state.hitThreshold, 0, One)) =>
          /\ ~e.accepted /\ ~e.counted /\ ~e.played
          /\ e.started = NULL /\ e.stopped = NULL
          /\ e.hitCountAfter = e.hitCountBefore

\* a collision under the floor although the threshold would have let it pass
C7_Witness ==
    \E e \in Fired :
       e.raw < minStrength /\ e.raw >= clamp(state.hitThreshold, 0, One) /\ ~e.played

-----------------------------------------------------------------------------
\* The voices (SpecVoice)

Sounding(o) == {v \in voices : v.o = o /\ v.st = "sounding"}

\* C8: in mono voice mode every obstacle has at most one sounding voice (one
\* that was neither stopped nor put on its fast release), whatever hits, mode
\* changes, sample selections and 'ended' callbacks came before.
C8_MonoOneVoice ==
    state.voiceMode = "mono" =>
      \A o \in 1..Len(obstacles) : Cardinality(Sounding(o)) <= 1

\* C9: a collision on an obstacle whose enabled flag is false starts no voice.
C9_DisabledSilent ==
    \A e \in Fired : ~e.enabled => (~e.played /\ e.started = NULL)

-----------------------------------------------------------------------------
\* The hit-zone arrays under reconfiguration (SpecConfig)

\* C10: when a detection pass begins, wasInHitZone and lastHitRev each have
\* exactly bladeCount rows of exactly obstacles.length entries, after any
\* blade-count changes, obstacle-count changes and preset loads.
C10_HitStateSized ==
    /\ passShape.wzRows = passShape.blades
    /\ passShape.lrRows = passShape.blades
    /\ passShape.wzCols \subseteq {passShape.obstacles}
    /\ passShape.lrCols \subseteq {passShape.obstacles}

\* a detection pass began with a bladeCount and an obstacle count that both
\* differ from the ones the page started with
C10_Witness ==
    /\ simTime > 0
    /\ passShape.blades = state.bladeCount
    /\ passShape.obstacles = Len(obstacles)
    /\ passShape.blades # DefaultState.bladeCount
    /\ passShape.obstacles # DefaultState.obstacleCount
    /\ passShape.wzRows = passShape.blades
    /\ passShape.wzCols = {passShape.obstacles}
    /\ preset # NoPreset

-----------------------------------------------------------------------------
\* Obstacle placement (SpecDrag)

\* C11: a detection pass that begins with a blade count or an obstacle angle
\* other than the previous pass had begins with the zone state and the wobble
\* phases reset.
C11_ResetBeforeDetection ==
    passShape.changed => passShape.atReset

\* C12: every obstacle's angle is in [0, 2 pi).
C12_AngleRange ==
    \A i \in 1..Len(obstacles) : 0 <= obstacles[i].angle /\ obstacles[i].angle < TWO_PI

-----------------------------------------------------------------------------
\* Degenerate ticks and configurations (SpecDegenerate)

\* C13: stepSimulation(dt) with dt <= 0 or omega <= 0 leaves simTime, the zone
\* state, the wobble phases, hitCount and the voices as they were and does not
\* invoke registerCollision.
C13_SilentNoOp ==
    (tick.dt <= 0 \/ tick.omega <= 0) => (tick.unchanged /\ tick.calls = 0)

\* a tick with dt < 0 at omega > 0 after a pair has fired
C13_Witness ==
    /\ tick.dt < 0 /\ tick.omega > 0
    /\ tick.unchanged /\ tick.calls = 0
    /\ \E b \in 1..Len(lastHitRev) : \E o \in 1..Len(lastHitRev[b]) :
          lastHitRev[b][o] # NegInf

\* C14: a step with dt > 0 and omega > 0 with bladeCount = 0, with an empty
\* obstacle list or with the obstacle count set to 0 completes and invokes
\* registerCollision zero times.
C14_DegenerateConfig ==
    (/\ tick.dt > 0 /\ tick.omega > 0
     /\ tick.blades = 0 \/ tick.obstacles = 0 \/ tick.obstacleCount = 0)
       => tick.calls = 0

\* such a step has run: time advanced although nothing could collide
C14_Witness ==
    /\ tick.dt > 0 /\ tick.omega > 0
    /\ tick.blades = 0 \/ tick.obstacles = 0
    /\ ~tick.unchanged
    /\ tick.calls = 0

\* ---------------------------------------------------------------------------
\* C15: a collision registered while the audio setup has not completed
\* (audioContext is null) or while state.running is false is dropped: playClick
\* is not called for it, so it starts and stops no voice, and it is not replayed
\* later: a step of the program that adds voices is a detection pass, and it
\* adds exactly one voice per collision that this same pass played.
NotYetRunning(e) == e.audio = "null" \/ ~e.running

SourceIds(vs) == { v.id : v \in vs }

DroppedSilent ==
    \A e \in Fired :
       NotYetRunning(e) => ~e.played /\ e.started = NULL /\ e.stopped = NULL

VoicesOnlyFromPass ==
    LET new    == SourceIds(voices') \ SourceIds(voices)
        played == { i \in DOMAIN trace' : trace'[i].played /\ ~NotYetRunning(trace'[i]) }
    IN  new # {} => simTime' # simTime /\ Cardinality(new) = Cardinality(played)

C15_DroppedNotReplayed == []DroppedSilent /\ [][VoicesOnlyFromPass]_vars

\* a collision was dropped while the simulation was stopped with the audio set
\* up, it was counted, and no voice exists
C15_Witness ==
    /\ \E e \in Fired : ~e.running /\ e.audio = "ctx" /\ e.counted /\ ~e.played
    /\ audioReadyPromise = "resolved"
    /\ voices = {}

\* ---------------------------------------------------------------------------
\* C16: a failed ensureAudio leaves no partial audio state. audioReadyPromise is
\* null exactly when setup was never attempted or its last attempt failed, and
\* nothing else ever clears audioContext or masterGain; so if every failed
\* attempt left them as before the attempt, they would be null whenever
\* audioReadyPromise is null, and state.running would be false.
C16_FailsAsAWhole ==
    audioReadyPromise = "null" =>
        audioContext = "null" /\ masterGain = "null" /\ ~state.running

\* ---------------------------------------------------------------------------
\* C17: voice completion returns the slot to idle and stopping is safe on stale
\* slots.  (1) When a registered voice that was never stopped ends, its slot is
\* null afterwards.  (2) In every reachable state stopActiveVoice leaves the
\* slot null, and on a null slot it changes nothing and stops no source.  (3) A
\* slot only ever holds a registered voice that is still sounding, so
\* stopActiveVoice never reaches a source it has stopped before.
VoiceKinds == {"sample", "noise"}

NaturalEndClearsSlot ==
    \A v \in voices :
       (v.id \notin SourceIds(voices') /\ v.registered /\ v.st = "sounding")
          => activeVoices'[v.kind][v.o] = NULL

StopSafe ==
    \A kind \in VoiceKinds, index \in 1..MaxObstacles :
       \A m \in {Machine(FALSE)} :
          \A r \in {stopActiveVoice(m, kind, index)} :
             /\ r.m.activeVoices[kind][index] = NULL
             /\ m.activeVoices[kind][index] = NULL => r.m = m /\ r.stopped = NULL
             /\ m.activeVoices[kind][index] # NULL => r.stopped = m.activeVoices[kind][index]

NoStaleSlot ==
    \A kind \in VoiceKinds, index \in 1..MaxObstacles :
       activeVoices[kind][index] # NULL =>
          \E v \in voices : /\ v.id = activeVoices[kind][index]
                             /\ v.kind = kind /\ v.o = index
                             /\ v.registered /\ v.st = "sounding"

C17_VoiceSlots == [](StopSafe /\ NoStaleSlot) /\ [][NaturalEndClearsSlot]_vars

\* a voice was stolen in the last pass and its 'ended' event has come since: the
\* slot still holds the voice that replaced it, and the other kind's slot is idle
C17_Witness ==
    \E e \in Fired :
       /\ e.played /\ e.stopped # NULL
       /\ e.stopped \notin SourceIds(voices)
       /\ activeVoices[e.kind][e.o] = e.started
       /\ \E kind \in VoiceKinds : activeVoices[kind][e.o] = NULL

\* ---------------------------------------------------------------------------
\* C18: in poly voice mode no stealing occurs.  A detection pass that runs in
\* poly mode leaves every voice that existed before it exactly as it was (not
\* stopped, not put on the fast release) and leaves every slot as it was, also
\* for voices registered earlier under mono mode; and none of its collisions
\* reports a stopped voice.
PolyPassStopsNothing ==
    (state.voiceMode = "poly" /\ simTime' # simTime) =>
        /\ voices \subseteq voices'
        /\ activeVoices' = activeVoices
        /\ \A i \in DOMAIN trace' : trace'[i].stopped = NULL

C18_PolyNoStealing == [][PolyPassStopsNothing]_vars

\* the last pass played a hit in poly mode on an obstacle whose slot still holds
\* a sounding voice of the same kind that was registered under mono mode
C18_Witness ==
    /\ state.voiceMode = "poly"
    /\ \E e \in Fired :
          /\ e.mode = "poly" /\ e.played
          /\ \E v \in voices :
                /\ v.id # e.started /\ v.o = e.o /\ v.kind = e.kind
                /\ v.registered /\ v.st = "sounding"
                /\ activeVoices[v.kind][v.o] = v.id

\* ---------------------------------------------------------------------------
\* C19: a redundant reset between ticks (blade count, obstacle count and every
\* angle unchanged) does not change the collision events emitted afterwards: with
\* axisJitter = 0 every sweep of the blade over the obstacle still has exactly
\* one event, also when the reset came while the blade was inside the zone.
C19_RedundantResetSafe ==
    state.axisJitter = 0 =>
       \A e \in Visits : (e.inZone /\ e.passN > 0) => e.passN = 1

\* ---------------------------------------------------------------------------
\* C20: resetHitStates and resetWobblePhases are idempotent: in every state,
\* for its bladeCount and obstacle list, applying either one to its own result
\* gives wasInHitZone, lastHitRev and wobblePhasePerBlade exactly as one call
\* leaves them.
C20_ResetIdempotent ==
    /\ \A once \in {resetHitStatesOn(wasInHitZone, lastHitRev, state, obstacles)} :
          resetHitStatesOn(once.wasInHitZone, once.lastHitRev, state, obstacles) = once
    /\ \A once \in {resetWobblePhasesOn(wobblePhasePerBlade, state)} :
          resetWobblePhasesOn(once, state) = once

\* resetHitStates has just cleared arrays that the last pass had left dirty: that
\* pass fired a pair and ended with it inside the zone, blade count and
\* obstacles are as in that pass, and the arrays are as one call leaves them
C20_Witness ==
    /\ passShape.blades = state.bladeCount
    /\ passShape.angles = Angles(obstacles)
    /\ \E e \in Fired : \E l \in {trace[Len(trace)]} :
          l.b = e.b /\ l.o = e.o /\ l.inZone
    /\ resetHitStates(state, obstacles)
          = [wasInHitZone |-> wasInHitZone, lastHitRev |-> lastHitRev]

\* ---------------------------------------------------------------------------
\* C21: the wobble phases are locked to the blade count: in every state, so
\* before every detection pass, wobblePhasePerBlade has exactly bladeCount
\* entries and entry b (counted from 0) is 2*pi*b/bladeCount; and a step that
\* leaves the blade count alone, such as a change of obstacle angles, leaves
\* the phase values unchanged.
PhasesLocked ==
    /\ Len(wobblePhasePerBlade) = Max(state.bladeCount, 0)
    /\ \A b \in 1..Len(wobblePhasePerBlade) :
          wobblePhasePerBlade[b] * state.bladeCount = TWO_PI * (b - 1)

PhasesKept ==
    state'.bladeCount = state.bladeCount => wobblePhasePerBlade' = wobblePhasePerBlade

C21_PhasesRelocked == []PhasesLocked /\ [][PhasesKept]_vars

\* the blade count went from 1 to 2 since the last pass and an obstacle angle was
\* changed by a completed drag: the second blade's phase is pi
C21_Witness ==
    /\ simTime > 0
    /\ passShape.blades = 1 /\ state.bladeCount = 2
    /\ passShape.angles # Angles(obstacles)
    /\ dragging = NULL
    /\ wobblePhasePerBlade = <<0, PI>>

\* ---------------------------------------------------------------------------
\* C22: a call stepSimulation(dt) with dt > 0 and omega > 0 runs exactly 4
\* sub-steps of size dt/4, each visiting every (blade, obstacle) pair exactly
\* once, and leaves simTime increased by exactly dt; stopSimulation rolls back
\* neither simTime nor the zone state that completed steps have written.
StepComplete ==
    (tick.dt > 0 /\ tick.omega > 0) =>
       /\ tick.end = tick.start + tick.dt
       /\ Len(trace) = 4 * tick.blades * tick.obstacles
       /\ \A s \in 1..4, b \in 1..tick.blades, o \in 1..tick.obstacles :
             Cardinality({i \in DOMAIN trace :
                            /\ trace[i].s = s /\ trace[i].b = b /\ trace[i].o = o
                            /\ 4 * (trace[i].t - tick.start) = s * tick.dt}) = 1

StopKeeps ==
    (state.running /\ ~state'.running) =>
        UNCHANGED <<simTime, wasInHitZone, lastHitRev>>

C22_StepRunsToCompletion == []StepComplete /\ [][StopKeeps]_vars

\* stopped right after a completed step over two blades and two obstacles that
\* left a pair inside its zone: simTime and the zone flag are as the step left them
C22_Witness ==
    /\ ~state.running
    /\ tick.dt > 0 /\ tick.omega > 0 /\ tick.blades = 2 /\ tick.obstacles = 2
    /\ simTime = tick.end /\ simTime = tick.start + tick.dt
    /\ \E e \in Visits : e.s = 4 /\ e.inZone /\ wasInHitZone[e.b][e.o]

\* ---------------------------------------------------------------------------
\* C23: the simulation step never mutates obstacles, and the detector treats
\* enabled and disabled obstacles alike: a visit fires exactly on a rising edge
\* in a later revolution than the pair's dedup index, every visit leaves the
\* pair's zone flag equal to inZone, and a visit that fired leaves the dedup
\* index at its revolution, whatever the obstacle's enabled flag.
VisitsOf(b, o) == {i \in DOMAIN trace : trace[i].b = b /\ trace[i].o = o}

LastOf(S) == CHOOSE i \in S : \A j \in S : j <= i

DetectorIgnoresEnabled ==
    /\ \A e \in Visits : e.fired <=> (~e.prev /\ e.inZone /\ e.rev > e.lastRev)
    /\ \A b \in 1..Len(wasInHitZone), o \in 1..Len(obstacles) :
          VisitsOf(b, o) # {} =>
             /\ wasInHitZone[b][o] = trace[LastOf(VisitsOf(b, o))].inZone
             /\ \A fired \in {{i \in VisitsOf(b, o) : trace[i].fired}} :
                   fired # {} => lastHitRev[b][o] = trace[LastOf(fired)].rev

StepKeepsObstacles == simTime' # simTime => obstacles' = obstacles

C23_StepReadsObstaclesOnly == []DetectorIgnoresEnabled /\ [][StepKeepsObstacles]_vars

\* the last pass fired on a disabled obstacle and then left its zone: its dedup
\* index is the revolution of the hit and its zone flag is cleared again
C23_Witness ==
    \E e \in Fired :
       /\ ~e.enabled /\ ~obstacles[e.o].enabled
       /\ e.rev > 0
       /\ lastHitRev[e.b][e.o] = e.rev
       /\ ~wasInHitZone[e.b][e.o]

\* ---------------------------------------------------------------------------
\* The tone mappers (SpecTone)

\* Strengths the mappers are applied to: the floats on a grid of [0, 1], two
\* subnormals, and values outside [0, 1].
ToneStrengths ==
    {n \in 0..FloatOne : n % FloatGrid = 0 /\ RoundRat(n, 1) = n}
       \cup {1, 3, 2 * FloatOne, -FloatGrid}

Dyn == clamp(SliderFloat(state.impactDynamics), 0, FloatOne)

Bias == clamp(SliderFloat(state.softHitLowCut), 0, FloatOne)

\* C25: for the fixed softHitLowCut bias of the state, getSoftHitLowCutFactor
\* is non-increasing in strength (s1 <= s2 implies factor(s1) >= factor(s2)),
\* it is 0 whenever the bias is 0, and it is always in [0, 1].
C25_LowCutMonotone ==
    /\ \A s \in ToneStrengths :
          \A f \in {getSoftHitLowCutFactor(s)} :
             /\ 0 <= f /\ f <= FloatOne
             /\ Bias = 0 => f = 0
    /\ \A s1, s2 \in ToneStrengths :
          s1 <= s2 => getSoftHitLowCutFactor(s1) >= getSoftHitLowCutFactor(s2)

\* a hit has been played with a bias strictly between 0 and 1, and the factor
\* takes different values at two strengths, and the same value at two others
C25_Witness ==
    /\ 0 < Bias /\ Bias < FloatOne
    /\ \E e \in Fired : e.played
    /\ \E s1, s2 \in ToneStrengths :
          s1 < s2 /\ getSoftHitLowCutFactor(s1) > getSoftHitLowCutFactor(s2)
    /\ \E s1, s2 \in ToneStrengths :
          /\ 0 <= s1 /\ s1 < s2 /\ s2 <= FloatOne
          /\ getSoftHitLowCutFactor(s1) = getSoftHitLowCutFactor(s2)

\* ---------------------------------------------------------------------------
\* C26: in the scenario (SpecScenario) the detector raises exactly one event per
\* blade per revolution: no pair fires twice in a revolution and, from the
\* second revolution on, each blade's latest event is of the current or the
\* previous revolution.  After the first sub-step (the simulation starts with a
\* blade inside the zone) the rawStrength of every event is at most (angular
\* travel per sub-step)/tolerance, which is below 0.5, so that with
\* hitThreshold = 0.5 no such event is accepted.
RevNow == (Omega * simTime) \div TWO_PI

OnePerBladePerRev ==
    /\ \A e \in Visits : e.revN <= 1
    /\ RevNow >= 1 =>
          \A b \in 1..state.bladeCount :
             \A log \in {pairLog[<<b, 1>>]} :
                log.n = 1 /\ log.rev >= RevNow - 1 /\ log.rev <= RevNow

EntryStrengthBounded ==
    \A e \in Fired :
       e.t > 1 =>
          /\ e.raw * HIT_ANGLE_TOL <= Omega * One
          /\ 2 * Omega < HIT_ANGLE_TOL
          /\ e.threshold = 50000 => ~e.accepted /\ ~e.played

C26_ScenarioRates == OnePerBladePerRev /\ EntryStrengthBounded

\* in the second revolution, with the threshold at 0.5, the last pass raised an
\* event with rawStrength 0.3 that was not accepted
C26_Witness ==
    /\ state.hitThreshold = 50000
    /\ \E e \in Fired :
          e.rev >= 1 /\ e.raw = 30000 /\ e.threshold = 50000 /\ ~e.accepted

\* ---------------------------------------------------------------------------
\* C27: detector / gate separation.  What a step leaves in the detector
\* (simTime, wasInHitZone, lastHitRev) and the sequence of its registerCollision
\* invocations with their rawStrength are the same from two states that differ
\* only in hitThreshold, impactDynamics, softHitLowCut, voiceMode, whether the
\* simulation is running, or the voices sounding: for every step that changes
\* only those, each tick and each jitter draw gives the same detector outcome
\* before and after the change.  Runs with the same ticks and draws therefore
\* keep identical detector states step after step.
Invocations(tr) ==
    [i \in DOMAIN tr |->
       IF tr[i].fired THEN <<tr[i].s, tr[i].b, tr[i].o, tr[i].raw>> ELSE << >>]

Detector(dt, noiseU) ==
    Value({[simTime |-> m.simTime, wasInHitZone |-> m.wasInHitZone,
            lastHitRev |-> m.lastHitRev,
            invocations |-> Value({Invocations(tr) : tr \in {m.trace}})]
           : m \in {stepSimulation(dt, noiseU, FALSE)}})

Geometry ==
    <<state.rpm, state.bladeCount, state.axisJitter, state.timingJitter,
      state.wobbleFreqHz, obstacles, simTime, wasInHitZone, lastHitRev,
      wobblePhasePerBlade>>

SameDetectorAcrossGateChange ==
    Geometry' = Geometry =>
       \A dt \in DtSet, noiseU \in NoiseDraws :
          \A before \in {Detector(dt, noiseU)}, after \in {Detector(dt, noiseU)'} :
             after = before

C27_DetectorGateSeparation == [][SameDetectorAcrossGateChange]_vars

\* stopped, in poly mode, with the threshold at 0.5 and the impact dynamics at
\* 100 %, after a pass that fired under the threshold 0.12 while running
C27_Witness ==
    /\ ~state.running /\ state.voiceMode = "poly"
    /\ state.hitThreshold = 50000 /\ state.impactDynamics = 100
    /\ \E e \in Fired : e.threshold = 12000 /\ e.accepted /\ e.running

\* ---------------------------------------------------------------------------
\* C28: a collision event is never retried.  A rising edge that passes the dedup
\* check leaves lastHitRev[b][o] at its revolution whether or not the gate
\* accepted the hit, and the pair is not offered to registerCollision again in
\* that revolution, even on a later sub-step with a larger rawStrength; without
\* a reset lastHitRev[b][o] never decreases, and it never exceeds the current
\* revolution index.
NoRetry ==
    /\ \A i, j \in DOMAIN trace :
          (/\ i < j /\ trace[i].fired
           /\ trace[j].b = trace[i].b /\ trace[j].o = trace[i].o
           /\ trace[j].rev = trace[i].rev) => ~trace[j].fired
    /\ \A b \in 1..Len(lastHitRev), o \in 1..Len(obstacles) :
          \A fired \in {{i \in VisitsOf(b, o) : trace[i].fired}} :
             fired # {} => lastHitRev[b][o] = trace[LastOf(fired)].rev

DedupBounded ==
    \A b \in 1..Len(lastHitRev) : \A o \in 1..Len(lastHitRev[b]) :
       lastHitRev[b][o] <= RevNow

DedupMonotone ==
    \A b \in 1..Len(lastHitRev) : \A o \in 1..Len(lastHitRev[b]) :
       lastHitRev'[b][o] >= lastHitRev[b][o]

C28_NeverRetried == [](NoRetry /\ DedupBounded) /\ [][DedupMonotone]_vars

\* the last pass offered a zone entry that the gate rejected, and on a later
\* sub-step of the same revolution the blade was closer, with a rawStrength the
\* gate would have accepted: it was not offered again
C28_Witness ==
    \E i, j \in DOMAIN trace :
       /\ i < j /\ trace[i].fired /\ ~trace[i].accepted
       /\ trace[j].b = trace[i].b /\ trace[j].o = trace[i].o
       /\ trace[j].rev = trace[i].rev
       /\ trace[j].raw > trace[i].raw
       /\ GatePasses(trace[j].raw, trace[j].threshold)
       /\ ~trace[j].fired
       /\ lastHitRev[trace[i].b][trace[i].o] = trace[i].rev

\* ---------------------------------------------------------------------------
\* C29: the 'ended' callback of a stolen (or any earlier) voice never clears the
\* slot of its successor.  On every step in which a source ends, a slot changes
\* only if it is the slot the source was registered for and it still referred
\* to that very source; it is then null.  Every other slot, and a slot that
\* holds another source, is left as it was.
EndedClearsOwnSlotOnly ==
    \A v \in voices :
       v.id \notin SourceIds(voices') =>
          \A kind \in VoiceKinds, index \in 1..MaxObstacles :
             activeVoices'[kind][index] # activeVoices[kind][index] =>
                /\ activeVoices[kind][index] = v.id
                /\ kind = v.kind /\ index = v.o /\ v.registered
                /\ activeVoices'[kind][index] = NULL

C29_LateEndedKeepsSuccessor == [][EndedClearsOwnSlotOnly]_vars

\* in mono mode a hit stole the slot's voice, the stolen voice's 'ended' event
\* has been delivered since, and the successor is still sounding in the slot
C29_Witness ==
    \E e \in Fired :
       /\ e.mode = "mono" /\ e.played /\ e.stopped # NULL
       /\ e.stopped \notin SourceIds(voices)
       /\ \E v \in voices : /\ v.id = e.started /\ v.st = "sounding" /\ v.registered
                             /\ activeVoices[v.kind][v.o] = v.id

\* ---------------------------------------------------------------------------
\* C30: at most one frame-loop chain is ever scheduled.  Under every
\* interleaving of Start/Stop clicks with the awaits of startSimulation and the
\* pending animation-frame callbacks there is never more than one pending loop
\* callback, and while the simulation is stopped no step advances it.
NoStepWhileStopped == ~state.running => simTime' = simTime

C30_SingleLoopChain == [](rafPending <= 1) /\ [][NoStepWhileStopped]_vars

====
